---- MODULE Spec2Model ----
(***************************************************************************)
(* A model of the Firestore-backed finance tracker of src/app.py: the six  *)
(* collections of the document store, and the component operations that    *)
(* read and write them (users, categories, ledger, budgets).               *)
(*                                                                         *)
(* Every store round trip is one step.  An operation that makes two or     *)
(* three round trips (create_user, add_category, set_monthly_budget,       *)
(* set_category_budget) is a sequence of steps of one process, so that     *)
(* another process may run between its lookup and its write.  Every round  *)
(* trip may fail; which handler of the operation catches the failure, and  *)
(* what the operation then returns, is taken from its try/except blocks.   *)
(***************************************************************************)
EXTENDS Integers, Sequences, FiniteSets, Bags, TLC

(***************************************************************************)
(* Bounds of the model.                                                    *)
(***************************************************************************)
\* ledger documents (expenses plus incomes) the store may hold
MaxEntries == 2
\* budget documents (monthly plus category) the store may hold
MaxBudgets == 2
\* category documents add_category may insert
MaxAdds == 2
\* expense documents expense_db.delete_expense may delete
MaxDeletes == 1

(***************************************************************************)
(* Strings are sequences of character codes, compared as Python compares   *)
(* str values: code by code, a proper prefix being smaller.                *)
(***************************************************************************)
NoStr == <<>>

RECURSIVE StrLE(_, _)
StrLE(a, b) ==
    IF a = <<>> THEN TRUE
    ELSE IF b = <<>> THEN FALSE
    ELSE IF Head(a) < Head(b) THEN TRUE
    ELSE IF Head(a) > Head(b) THEN FALSE
    ELSE StrLE(Tail(a), Tail(b))

\* date.strftime("%Y-%m-%d") of a day of 2024: zero-padded, ten characters
IsoDate(month, day) ==
    <<50, 48, 50, 52, 45, 48 + (month \div 10), 48 + (month % 10), 45,
      48 + (day \div 10), 48 + (day % 10)>>

\* str.lower() on the ASCII letters
Lower(s) == [i \in 1..Len(s) |-> IF s[i] >= 65 /\ s[i] <= 90 THEN s[i] + 32 ELSE s[i]]

\* Series.str.contains(pat, na=False) on one value: pat is searched in hay as
\* a regular expression (regex=True is the default).  Of the metacharacters
\* the model has ".", which matches any character but a line break; every
\* other character of the model's texts matches itself.
Contains(hay, pat) ==
    \E i \in 0..(Len(hay) - Len(pat)) :
        \A j \in 1..Len(pat) :
            IF pat[j] = 46 THEN hay[i + j] # 10 ELSE hay[i + j] = pat[j]

(***************************************************************************)
(* Optional numbers: <<>> is None, <<n>> is the number n.                  *)
(***************************************************************************)
None == <<>>
Some(n) == <<n>>

(***************************************************************************)
(* The outcome of one store round trip.                                    *)
(***************************************************************************)
QueryOutcomes == {"ok", "FailedPrecondition", "ServiceUnavailable", "Exception"}
WriteOutcomes == {"ok", "ServiceUnavailable"}

(***************************************************************************)
(* The state.                                                              *)
(*                                                                         *)
(* users, budgets and category_budgets are sets of documents that carry    *)
(* their document id; categories is a bag of documents (the program never  *)
(* reads a category's id); expenses and incomes are the ledger documents   *)
(* in the order of their auto-generated document ids, which is the order   *)
(* the store breaks ties in.  A fresh id is random, so a new ledger        *)
(* document may land anywhere in that order.                               *)
(***************************************************************************)
VARIABLES users, categories, expenses, incomes, budgets, category_budgets,
          pc, frame, ret, appended, manual, lastSet, overlapped

store == <<users, categories, expenses, incomes, budgets, category_budgets>>
ghosts == <<appended, manual, lastSet, overlapped>>
vars == <<store, pc, frame, ret, ghosts>>

Procs == {1, 2}

\* the value of ret[p] while process p has returned nothing
NoRet == [op |-> "none", args |-> <<>>, error |-> "none", raised |-> FALSE, value |-> <<>>]
NoFrame == [op |-> "none"]

\* a normal return of `value`; `error` names the except branch taken, if any
Returned(op, args, error, value) ==
    [op |-> op, args |-> args, error |-> error, raised |-> FALSE, value |-> value]
\* the exception `error` leaves the operation
Raised(op, args, error) ==
    [op |-> op, args |-> args, error |-> error, raised |-> TRUE, value |-> <<>>]

(***************************************************************************)
(* Record Store Adapter: collection_to_df on a ledger collection.          *)
(***************************************************************************)
InsertAt(seq, i, x) == SubSeq(seq, 1, i) \o <<x>> \o SubSeq(seq, i + 1, Len(seq))
Take(seq, n) == SubSeq(seq, 1, IF n < Len(seq) THEN n ELSE Len(seq))

\* q.order_by("date"): ascending, documents of one date in document-id order
RECURSIVE OrderByDate(_)
OrderByDate(rows) ==
    IF rows = <<>> THEN <<>>
    ELSE LET n == Len(rows)
             last == rows[n]
             front == OrderByDate(SubSeq(rows, 1, n - 1))
             \* last goes after every row whose date is <= its own
             k == Cardinality({i \in 1..Len(front) : StrLE(front[i].date, last.date)})
         IN  InsertAt(front, k, last)

\* WhereFilters without the user_id filter
WhereFilters_AnyUser(col, a) ==
    LET keep(d) == /\ (a.start_date # NoStr => StrLE(a.start_date, d.date))
                   /\ (a.end_date # NoStr => StrLE(d.date, a.end_date))
                   /\ (a.category # "" => d.category = a.category)
    IN  SelectSeq(col, keep)

\* the filters get_expenses / get_incomes build, applied by the store
WhereFilters(col, a) ==
    LET keep(d) == /\ d.user_id = a.user_id
                   /\ (a.start_date # NoStr => StrLE(a.start_date, d.date))
                   /\ (a.end_date # NoStr => StrLE(d.date, a.end_date))
                   /\ (a.category # "" => d.category = a.category)
    IN  SelectSeq(col, keep)

\* collection_to_df(col, filters, order_by="date", limit=limit): the rows of
\* the frame.  Amounts are stored as float(amount) and dates as str, so the
\* to_numeric / astype(str) normalisation leaves both as they are.
CollectionToDf(col, a) ==
    LET ordered == OrderByDate(WhereFilters(col, a))
    IN  IF a.limit # 0 THEN Take(ordered, a.limit) ELSE ordered

(***************************************************************************)
(* Ledger Operations.                                                      *)
(***************************************************************************)
\* a description that is missing (None): str.lower() gives NaN, na=False
NoDesc == <<-1>>

\* LocalFilters with an exclusive upper amount bound
LocalFilters_Exclusive(rows, a) ==
    LET keep(r) == /\ (a.qtext # NoStr =>
                          /\ r.description # NoDesc
                          /\ Contains(Lower(r.description), Lower(a.qtext)))
                   /\ (a.min_amt # None => r.amount >= a.min_amt[1])
                   /\ (a.max_amt # None => r.amount < a.max_amt[1])
    IN  SelectSeq(rows, keep)

\* the local filters of get_expenses / get_incomes (description, amounts)
LocalFilters(rows, a) ==
    LET keep(r) == /\ (a.qtext # NoStr =>
                          /\ r.description # NoDesc
                          /\ Contains(Lower(r.description), Lower(a.qtext)))
                   /\ (a.min_amt # None => r.amount >= a.min_amt[1])
                   /\ (a.max_amt # None => r.amount <= a.max_amt[1])
    IN  SelectSeq(rows, keep)

\* a frame left in the order the store returned it
SortValuesDesc_Unsorted(rows) == {rows}

Perms(n) == {f \in [1..n -> 1..n] : \A i, j \in 1..n : i # j => f[i] # f[j]}

\* df.sort_values("date", ascending=False): the default sort is not stable,
\* so rows of one date may come out in any order
SortValuesDesc(rows) ==
    {[i \in 1..Len(rows) |-> rows[f[i]]] : f \in
        {g \in Perms(Len(rows)) :
            \A i \in 1..(Len(rows) - 1) : StrLE(rows[g[i + 1]].date, rows[g[i]].date)}}

\* a list that fetches every row and cuts to `limit` after its local filters
LedgerList_LimitAfterFilters(col, a, outcome) ==
    IF outcome # "ok" THEN {<<>>}
    ELSE LET df == OrderByDate(WhereFilters(col, a))
             kept == LocalFilters(df, a)
         IN  IF df = <<>> THEN {df}
             ELSE SortValuesDesc(IF a.limit # 0 THEN Take(kept, a.limit) ELSE kept)

\* get_expenses / get_incomes: the frames the call may return
LedgerList(col, a, outcome) ==
    IF outcome # "ok" THEN {<<>>}
    ELSE LET df == CollectionToDf(col, a)
         IN  IF df = <<>> THEN {df} ELSE SortValuesDesc(LocalFilters(df, a))

GetExpenses(p, a, outcome) ==
    /\ pc[p] = "idle"
    /\ \E rows \in LedgerList(expenses, a, outcome) :
          ret' = [ret EXCEPT ![p] = Returned("get_expenses", a,
                      IF outcome = "ok" THEN "none" ELSE outcome, rows)]
    /\ pc' = [pc EXCEPT ![p] = "done"]
    /\ UNCHANGED <<store, frame, ghosts>>

GetIncomes(p, a, outcome) ==
    /\ pc[p] = "idle"
    /\ \E rows \in LedgerList(incomes, a, outcome) :
          ret' = [ret EXCEPT ![p] = Returned("get_incomes", a,
                      IF outcome = "ok" THEN "none" ELSE outcome, rows)]
    /\ pc' = [pc EXCEPT ![p] = "done"]
    /\ UNCHANGED <<store, frame, ghosts>>

\* an add that takes the id of an existing document and overwrites it
Added_Overwriting(col, doc) ==
    IF col = <<>> THEN {<<doc>>}
    ELSE {[col EXCEPT ![i] = doc] : i \in DOMAIN col}

\* db.collection(...).add(doc): the collection with doc under a fresh id
Added(col, doc) == {InsertAt(col, i, doc) : i \in 0..Len(col)}

AddExpense(p, doc, outcome) ==
    /\ pc[p] = "idle"
    /\ Len(expenses) + Len(incomes) < MaxEntries
    /\ IF outcome = "ok"
       THEN /\ expenses' \in Added(expenses, doc)
            /\ appended' = [appended EXCEPT !.expenses = @ (+) SetToBag({doc})]
       ELSE UNCHANGED <<expenses, appended>>
    /\ ret' = [ret EXCEPT ![p] = Returned("add_expense", doc,
                   IF outcome = "ok" THEN "none" ELSE outcome, outcome = "ok")]
    /\ pc' = [pc EXCEPT ![p] = "done"]
    /\ UNCHANGED <<users, categories, incomes, budgets, category_budgets, frame,
                   manual, lastSet, overlapped>>

AddIncome(p, doc, outcome) ==
    /\ pc[p] = "idle"
    /\ Len(expenses) + Len(incomes) < MaxEntries
    /\ IF outcome = "ok"
       THEN /\ incomes' \in Added(incomes, doc)
            /\ appended' = [appended EXCEPT !.incomes = @ (+) SetToBag({doc})]
       ELSE UNCHANGED <<incomes, appended>>
    /\ ret' = [ret EXCEPT ![p] = Returned("add_income", doc,
                   IF outcome = "ok" THEN "none" ELSE outcome, outcome = "ok")]
    /\ pc' = [pc EXCEPT ![p] = "done"]
    /\ UNCHANGED <<users, categories, expenses, budgets, category_budgets, frame,
                   manual, lastSet, overlapped>>

\* the caller takes the result; the process may call again
Return(p) ==
    /\ pc[p] = "done"
    /\ pc' = [pc EXCEPT ![p] = "idle"]
    /\ ret' = [ret EXCEPT ![p] = NoRet]
    /\ frame' = [frame EXCEPT ![p] = NoFrame]
    /\ UNCHANGED <<store, ghosts>>

(***************************************************************************)
(* Budget Ledger.  A lookup query has no order_by, so the store returns    *)
(* the matching documents in document-id order and limit(1) keeps the one  *)
(* with the smallest id.                                                   *)
(***************************************************************************)
DocIds == 1..MaxBudgets

\* list(safe_get(query.limit(1))): <<>> or the matching document of smallest id
First(matching) ==
    IF matching = {} THEN <<>>
    ELSE <<CHOOSE d \in matching : \A e \in matching : d.id <= e.id>>

\* FindMonthly matching on the month alone
FindMonthly_AnyUser(col, user_id, month) ==
    First({d \in col : d.month = month})

\* where user_id == .. where month == .. limit(1)
FindMonthly(col, user_id, month) ==
    First({d \in col : d.user_id = user_id /\ d.month = month})

\* FindCategory matching on user and month alone
FindCategory_AnyCategory(col, user_id, month, category) ==
    First({d \in col : d.user_id = user_id /\ d.month = month})

\* where user_id == .. where month == .. where category == .. limit(1)
FindCategory(col, user_id, month, category) ==
    First({d \in col : d.user_id = user_id /\ d.month = month
                          /\ d.category = category})

\* col.document(id).update({"budget": float(budget)})
UpdateBudget(col, id, budget) ==
    {IF d.id = id THEN [d EXCEPT !.budget = budget] ELSE d : d \in col}

\* a fresh document id (0 when the model has none left: never used to add)
FreshIds(col) ==
    LET free == DocIds \ {d.id : d \in col}
    IN  IF free = {} THEN {0} ELSE free

\* an upsert that finds nothing needs room for the document it will add
RoomToAdd ==
    Cardinality(budgets) + Cardinality(category_budgets)
        + Cardinality({q \in Procs : /\ pc[q] \in {"smb_write", "scb_write"}
                                     /\ frame[q].found = <<>>})
        < MaxBudgets

\* the key an upsert in flight works on, as recorded by the ghost variables
KeyOf(f) ==
    IF f.op = "set_monthly_budget" THEN <<f.args.user_id, f.args.month>>
    ELSE <<f.args.user_id, f.args.month, f.args.category>>
InFlight(q) == pc[q] \in {"smb_write", "scb_write"}

\* set_monthly_budget, first round trip: the existence lookup
SetMonthlyBudgetLookup(p, a, outcome) ==
    /\ pc[p] = "idle"
    /\ LET found == FindMonthly(budgets, a.user_id, a.month)
       IN  IF outcome = "ok"
           THEN /\ found = <<>> => RoomToAdd
                /\ frame' = [frame EXCEPT ![p] =
                                [op |-> "set_monthly_budget", args |-> a, found |-> found]]
                /\ pc' = [pc EXCEPT ![p] = "smb_write"]
                /\ overlapped' = overlapped \cup
                       {<<a.user_id, a.month>> : q \in
                           {q \in Procs \ {p} : /\ InFlight(q)
                                                /\ KeyOf(frame[q]) = <<a.user_id, a.month>>}}
                /\ UNCHANGED ret
           ELSE /\ ret' = [ret EXCEPT ![p] =
                              Returned("set_monthly_budget", a, outcome, None)]
                /\ pc' = [pc EXCEPT ![p] = "done"]
                /\ UNCHANGED <<frame, overlapped>>
    /\ UNCHANGED <<store, appended, manual, lastSet>>

\* MonthlyWritten that adds a document whatever the lookup found
MonthlyWritten_AlwaysAdd(col, found, a, id) ==
    col \cup {[id |-> id, user_id |-> a.user_id, month |-> a.month, budget |-> a.budget]}

\* the write of set_monthly_budget: update the document found, or add one
MonthlyWritten(col, found, a, id) ==
    IF found # <<>> THEN UpdateBudget(col, found[1].id, a.budget)
    ELSE col \cup {[id |-> id, user_id |-> a.user_id, month |-> a.month,
                    budget |-> a.budget]}

\* set_monthly_budget, second round trip: update or add
SetMonthlyBudgetWrite(p, outcome) ==
    /\ pc[p] = "smb_write"
    /\ LET a == frame[p].args
       IN  /\ IF outcome = "ok"
              THEN /\ \E id \in FreshIds(budgets) :
                         budgets' = MonthlyWritten(budgets, frame[p].found, a, id)
                   /\ lastSet' = [lastSet EXCEPT !.monthly =
                                     (<<a.user_id, a.month>> :> a.budget) @@ @]
              ELSE UNCHANGED <<budgets, lastSet>>
           /\ ret' = [ret EXCEPT ![p] = Returned("set_monthly_budget", a,
                          IF outcome = "ok" THEN "none" ELSE outcome, None)]
    /\ pc' = [pc EXCEPT ![p] = "done"]
    /\ UNCHANGED <<users, categories, expenses, incomes, category_budgets, frame,
                   appended, manual, overlapped>>

\* docs_list[0].to_dict().get("budget") if docs_list else None
BudgetOf(found) == IF found = <<>> THEN None ELSE Some(found[1].budget)

\* get_monthly_budget: one query; None when nothing matches or the query fails
GetMonthlyBudget(p, a, outcome) ==
    /\ pc[p] = "idle"
    /\ ret' = [ret EXCEPT ![p] =
                  IF outcome = "ok"
                  THEN Returned("get_monthly_budget", a, "none",
                                BudgetOf(FindMonthly(budgets, a.user_id, a.month)))
                  ELSE Returned("get_monthly_budget", a, outcome, None)]
    /\ pc' = [pc EXCEPT ![p] = "done"]
    /\ UNCHANGED <<store, frame, ghosts>>

\* set_category_budget, first round trip: the existence lookup
SetCategoryBudgetLookup(p, a, outcome) ==
    /\ pc[p] = "idle"
    /\ LET found == FindCategory(category_budgets, a.user_id, a.month, a.category)
           key == <<a.user_id, a.month, a.category>>
       IN  IF outcome = "ok"
           THEN /\ found = <<>> => RoomToAdd
                /\ frame' = [frame EXCEPT ![p] =
                                [op |-> "set_category_budget", args |-> a, found |-> found]]
                /\ pc' = [pc EXCEPT ![p] = "scb_write"]
                /\ overlapped' = overlapped \cup
                       {key : q \in {q \in Procs \ {p} : /\ InFlight(q)
                                                        /\ KeyOf(frame[q]) = key}}
                /\ UNCHANGED ret
           ELSE /\ ret' = [ret EXCEPT ![p] =
                              Returned("set_category_budget", a, outcome, None)]
                /\ pc' = [pc EXCEPT ![p] = "done"]
                /\ UNCHANGED <<frame, overlapped>>
    /\ UNCHANGED <<store, appended, manual, lastSet>>

\* the write of set_category_budget: update the document found, or add one
CategoryWritten(col, found, a, id) ==
    IF found # <<>> THEN UpdateBudget(col, found[1].id, a.budget)
    ELSE col \cup {[id |-> id, user_id |-> a.user_id, month |-> a.month,
                    category |-> a.category, budget |-> a.budget]}

\* set_category_budget, second round trip: update or add
SetCategoryBudgetWrite(p, outcome) ==
    /\ pc[p] = "scb_write"
    /\ LET a == frame[p].args
       IN  /\ IF outcome = "ok"
              THEN /\ \E id \in FreshIds(category_budgets) :
                         category_budgets' =
                             CategoryWritten(category_budgets, frame[p].found, a, id)
                   /\ lastSet' = [lastSet EXCEPT !.category =
                                     (<<a.user_id, a.month, a.category>> :> a.budget) @@ @]
              ELSE UNCHANGED <<category_budgets, lastSet>>
           /\ ret' = [ret EXCEPT ![p] = Returned("set_category_budget", a,
                          IF outcome = "ok" THEN "none" ELSE outcome, None)]
    /\ pc' = [pc EXCEPT ![p] = "done"]
    /\ UNCHANGED <<users, categories, expenses, incomes, budgets, frame,
                   appended, manual, overlapped>>

\* get_category_budget: one query; None when nothing matches or the query fails
GetCategoryBudget(p, a, outcome) ==
    /\ pc[p] = "idle"
    /\ ret' = [ret EXCEPT ![p] =
                  IF outcome = "ok"
                  THEN Returned("get_category_budget", a, "none",
                                BudgetOf(FindCategory(category_budgets, a.user_id,
                                                      a.month, a.category)))
                  ELSE Returned("get_category_budget", a, outcome, None)]
    /\ pc' = [pc EXCEPT ![p] = "done"]
    /\ UNCHANGED <<store, frame, ghosts>>

(***************************************************************************)
(* Users and the Category Registry.                                        *)
(***************************************************************************)
\* the characters of the names the model uses (TLA+ strings have no order)
Codes(s) ==
    CASE s = "Food" -> <<70, 111, 111, 100>>
      [] s = "Transport" -> <<84, 114, 97, 110, 115, 112, 111, 114, 116>>
      [] s = "Shopping" -> <<83, 104, 111, 112, 112, 105, 110, 103>>
      [] s = "Bills" -> <<66, 105, 108, 108, 115>>
      [] s = "Entertainment" -> <<69, 110, 116, 101, 114, 116, 97, 105, 110, 109, 101, 110, 116>>
      [] s = "Other" -> <<79, 116, 104, 101, 114>>
      [] s = "Salary" -> <<83, 97, 108, 97, 114, 121>>
      [] s = "Interest" -> <<73, 110, 116, 101, 114, 101, 115, 116>>
      [] s = "Gift" -> <<71, 105, 102, 116>>
      [] s = "Travel" -> <<84, 114, 97, 118, 101, 108>>
      [] s = "u1" -> <<117, 49>>
      [] s = "u2" -> <<117, 50>>

\* sha256_hash(text): a digest, distinct for distinct texts
Sha256Hash(text) == <<"sha256", text>>

UserIds == {"u1", "u2"}

\* the document of smallest id among `matching`, as limit(1) returns it
FirstUser(matching) ==
    IF matching = {} THEN <<>>
    ELSE <<CHOOSE d \in matching : \A e \in matching : StrLE(Codes(d.id), Codes(e.id))>>

defaults_exp == <<"Food", "Transport", "Shopping", "Bills", "Entertainment", "Other">>
defaults_inc == <<"Salary", "Interest", "Gift", "Other">>

\* the documents create_user puts into its batch
DefaultDocs(user_id) ==
    {[user_id |-> user_id, name |-> defaults_exp[i], type |-> "expense"] :
        i \in DOMAIN defaults_exp}
    \cup
    {[user_id |-> user_id, name |-> defaults_inc[i], type |-> "income"] :
        i \in DOMAIN defaults_inc}

\* a batch written set by set: a failure leaves the expense defaults behind
BatchCommitted_Partial(cats, user_id, outcome) ==
    IF outcome = "ok" THEN cats (+) SetToBag(DefaultDocs(user_id))
    ELSE cats (+) SetToBag({d \in DefaultDocs(user_id) : d.type = "expense"})

\* batch.commit(): the store applies all the writes of a batch or none
BatchCommitted(cats, user_id, outcome) ==
    IF outcome = "ok" THEN cats (+) SetToBag(DefaultDocs(user_id)) ELSE cats

\* the message create_user returns for a failed round trip
CreateUserError(outcome) ==
    IF outcome = "FailedPrecondition" THEN "Firestore index required" ELSE "Error"

\* a lookup that compares the document id with the username
FindUsername_ById(col, username) == {u \in col : u.id = username}

\* users_ref.where("username", "==", username): the matching documents
FindUsername(col, username) == {u \in col : u.username = username}

\* create_user, first round trip: does the username exist?
CreateUserLookup(p, a, outcome) ==
    /\ pc[p] = "idle"
    /\ Cardinality(users) + Cardinality({q \in Procs : pc[q] = "cu_add"})
           < Cardinality(UserIds)
    /\ IF outcome # "ok"
       THEN /\ ret' = [ret EXCEPT ![p] = Returned("create_user", a, outcome,
                                             <<FALSE, CreateUserError(outcome)>>)]
            /\ pc' = [pc EXCEPT ![p] = "done"]
            /\ UNCHANGED frame
       ELSE IF FindUsername(users, a.username) # {}
       THEN /\ ret' = [ret EXCEPT ![p] = Returned("create_user", a, "none",
                                             <<FALSE, "Username already exists">>)]
            /\ pc' = [pc EXCEPT ![p] = "done"]
            /\ UNCHANGED frame
       ELSE /\ frame' = [frame EXCEPT ![p] = [op |-> "create_user", args |-> a]]
            /\ pc' = [pc EXCEPT ![p] = "cu_add"]
            /\ UNCHANGED ret
    /\ UNCHANGED <<store, ghosts>>

\* create_user, second round trip: users_ref.add
CreateUserAdd(p, outcome) ==
    /\ pc[p] = "cu_add"
    /\ LET a == frame[p].args
       IN  IF outcome = "ok"
           THEN \E id \in UserIds \ {u.id : u \in users} :
                   /\ users' = users \cup {[id |-> id, username |-> a.username,
                                            password |-> Sha256Hash(a.password)]}
                   /\ frame' = [frame EXCEPT ![p] =
                                   [op |-> "create_user", args |-> a, user_id |-> id]]
                   /\ pc' = [pc EXCEPT ![p] = "cu_commit"]
                   /\ UNCHANGED ret
           ELSE /\ ret' = [ret EXCEPT ![p] = Returned("create_user", a, outcome,
                                                 <<FALSE, CreateUserError(outcome)>>)]
                /\ pc' = [pc EXCEPT ![p] = "done"]
                /\ UNCHANGED <<users, frame>>
    /\ UNCHANGED <<categories, expenses, incomes, budgets, category_budgets, ghosts>>

\* an except branch that deletes the user record it had written
UsersAfterBatch_RolledBack(col, user_id, outcome) ==
    IF outcome = "ok" THEN col ELSE {u \in col : u.id # user_id}

\* the users collection after batch.commit(): neither the success path nor
\* an except branch touches it
UsersAfterBatch(col, user_id, outcome) == col

\* create_user, third round trip: the batch of default categories
CreateUserCommit(p, outcome) ==
    /\ pc[p] = "cu_commit"
    /\ users' = UsersAfterBatch(users, frame[p].user_id, outcome)
    /\ categories' = BatchCommitted(categories, frame[p].user_id, outcome)
    /\ ret' = [ret EXCEPT ![p] =
                  IF outcome = "ok"
                  THEN Returned("create_user", frame[p].args, "none", <<TRUE, "Created">>)
                  ELSE Returned("create_user", frame[p].args, outcome,
                                <<FALSE, CreateUserError(outcome)>>)]
    /\ pc' = [pc EXCEPT ![p] = "done"]
    /\ UNCHANGED <<expenses, incomes, budgets, category_budgets, frame, ghosts>>

\* authenticate: the id of the user with that name and digest, or None
Authenticate(p, a, outcome) ==
    /\ pc[p] = "idle"
    /\ LET docs_list == FirstUser({u \in users : /\ u.username = a.username
                                                 /\ u.password = Sha256Hash(a.password)})
       IN  ret' = [ret EXCEPT ![p] =
                      IF outcome # "ok" THEN Returned("authenticate", a, outcome, <<>>)
                      ELSE IF docs_list # <<>>
                      THEN Returned("authenticate", a, "none", <<docs_list[1].id>>)
                      ELSE Returned("authenticate", a, "none", <<>>)]
    /\ pc' = [pc EXCEPT ![p] = "done"]
    /\ UNCHANGED <<store, frame, ghosts>>

\* the rows of a bag of category documents, ordered by name ascending
RECURSIVE OrderByName(_)
OrderByName(B) ==
    IF DOMAIN B = {} THEN <<>>
    ELSE LET d == CHOOSE x \in DOMAIN B :
                      \A y \in DOMAIN B : StrLE(Codes(x.name), Codes(y.name))
         IN  [i \in 1..B[d] |-> d] \o OrderByName([y \in DOMAIN B \ {d} |-> B[y]])

\* get_categories: df["name"].tolist() of the user's categories of one type
CategoryNames(cats, user_id, ctype) ==
    LET rows == OrderByName([d \in {x \in DOMAIN cats : /\ x.user_id = user_id
                                                        /\ x.type = ctype} |-> cats[d]])
    IN  [i \in 1..Len(rows) |-> rows[i].name]

GetCategories(p, a, outcome) ==
    /\ pc[p] = "idle"
    /\ ret' = [ret EXCEPT ![p] =
                  IF outcome = "ok"
                  THEN Returned("get_categories", a, "none",
                                CategoryNames(categories, a.user_id, a.type))
                  ELSE Returned("get_categories", a, outcome, <<>>)]
    /\ pc' = [pc EXCEPT ![p] = "done"]
    /\ UNCHANGED <<store, frame, ghosts>>

\* a lookup that reports a record also when the query failed
Existing_OrFailed(cats, a, outcome) ==
    IF outcome # "ok" \/ BagIn(a, cats) THEN <<a>> ELSE <<>>

\* add_category's list(existing): the first matching record (limit(1)), if
\* the lookup succeeded.  An exception of the lookup leaves the try block
\* before the test, as if nothing was found.
Existing(cats, a, outcome) ==
    IF outcome = "ok" /\ BagIn(a, cats) THEN <<a>> ELSE <<>>

\* add_category, first round trip: the existence lookup.  Any failure of it
\* is swallowed ("pass") and the insert goes ahead.  The frame keeps how the
\* lookup ended.
AddCategoryLookup(p, a, outcome) ==
    /\ pc[p] = "idle"
    /\ BagCardinality(manual) + Cardinality({q \in Procs : pc[q] = "ac_insert"}) < MaxAdds
    /\ frame' = [frame EXCEPT ![p] =
                    [op |-> "add_category", args |-> a, lookup |-> outcome,
                     existing |-> Existing(categories, a, outcome)]]
    /\ IF Existing(categories, a, outcome) # <<>>
       THEN /\ ret' = [ret EXCEPT ![p] = Returned("add_category", a, "none", FALSE)]
            /\ pc' = [pc EXCEPT ![p] = "done"]
       ELSE /\ pc' = [pc EXCEPT ![p] = "ac_insert"]
            /\ UNCHANGED ret
    /\ UNCHANGED <<store, ghosts>>

\* an insert that the store refuses when the document exists already
CategoryAdded_IfAbsent(cats, doc) ==
    IF BagIn(doc, cats) THEN cats ELSE cats (+) SetToBag({doc})

\* col.add({"user_id": user_id, "name": name, "type": ctype})
CategoryAdded(cats, doc) == cats (+) SetToBag({doc})

\* add_category, second round trip: col.add, outside the try block
AddCategoryInsert(p, outcome) ==
    /\ pc[p] = "ac_insert"
    /\ LET a == frame[p].args
       IN  IF outcome = "ok"
           THEN /\ categories' = CategoryAdded(categories, a)
                /\ manual' = manual (+) SetToBag({a})
                /\ ret' = [ret EXCEPT ![p] = Returned("add_category", a, "none", TRUE)]
           ELSE /\ ret' = [ret EXCEPT ![p] = Raised("add_category", a, outcome)]
                /\ UNCHANGED <<categories, manual>>
    /\ pc' = [pc EXCEPT ![p] = "done"]
    /\ UNCHANGED <<users, expenses, incomes, budgets, category_budgets, frame,
                   appended, lastSet, overlapped>>

(***************************************************************************)
(* The initial state: an empty store, no call in progress.                 *)
(***************************************************************************)
Init ==
    /\ users = {}
    /\ categories = EmptyBag
    /\ expenses = <<>>
    /\ incomes = <<>>
    /\ budgets = {}
    /\ category_budgets = {}
    /\ pc = [p \in Procs |-> "idle"]
    /\ frame = [p \in Procs |-> NoFrame]
    /\ ret = [p \in Procs |-> NoRet]
    /\ appended = [expenses |-> EmptyBag, incomes |-> EmptyBag]
    /\ manual = EmptyBag
    /\ lastSet = [monthly |-> <<>>, category |-> <<>>]
    /\ overlapped = {}

(***************************************************************************)
(* Inputs.                                                                 *)
(***************************************************************************)
D1 == IsoDate(5, 3)
D2 == IsoDate(5, 20)
\* "Coffee run"
DescCoffee == <<67, 111, 102, 102, 101, 101, 32, 114, 117, 110>>
\* the default of get_expenses / get_incomes' limit parameter
DefaultLimit == 1000

\* a call of get_expenses / get_incomes with no filter
NoFilters(u, limit) ==
    [user_id |-> u, start_date |-> NoStr, end_date |-> NoStr, category |-> "",
     qtext |-> NoStr, min_amt |-> None, max_amt |-> None, limit |-> limit]

(***************************************************************************)
(* SpecLedger: one session appending to and listing the ledger.            *)
(***************************************************************************)
LedgerDocs ==
    [user_id : UserIds, date : {D1, D2}, category : {"Food", "Bills"},
     amount : {5, 20}, description : {DescCoffee}]
LedgerCalls == {NoFilters(u, l) : u \in UserIds, l \in {0, 1, 2, DefaultLimit}}

NextLedger ==
    \/ \E doc \in LedgerDocs, o \in WriteOutcomes : AddExpense(1, doc, o)
    \/ \E doc \in LedgerDocs, o \in WriteOutcomes : AddIncome(1, doc, o)
    \/ \E a \in LedgerCalls, o \in QueryOutcomes : GetExpenses(1, a, o)
    \/ \E a \in LedgerCalls, o \in QueryOutcomes : GetIncomes(1, a, o)
    \/ Return(1)

SpecLedger == Init /\ [][NextLedger]_vars

(***************************************************************************)
(* Helpers of the properties.                                              *)
(***************************************************************************)
Range(s) == {s[i] : i \in DOMAIN s}
BagOfSeq(s) == [x \in Range(s) |-> Cardinality({i \in DOMAIN s : s[i] = x})]
\* the documents of bag B that belong to user u
BagOfUser(B, u) == [x \in {d \in DOMAIN B : d.user_id = u} |-> B[x]]
RECURSIVE SumSeq(_)
SumSeq(s) == IF s = <<>> THEN 0 ELSE s[1].amount + SumSeq(Tail(s))
RECURSIVE SumBag(_)
SumBag(B) ==
    IF DOMAIN B = {} THEN 0
    ELSE LET x == CHOOSE y \in DOMAIN B : TRUE
         IN  x.amount * B[x] + SumBag([y \in DOMAIN B \ {x} |-> B[y]])

IsList(r) == r.op \in {"get_expenses", "get_incomes"}
\* the bag of entries appended to the collection the call r read
AppendedFor(r) == IF r.op = "get_expenses" THEN appended.expenses ELSE appended.incomes
Unfiltered(a) ==
    /\ a.start_date = NoStr /\ a.end_date = NoStr /\ a.category = ""
    /\ a.qtext = NoStr /\ a.min_amt = None /\ a.max_amt = None
ListsEverything(r) ==
    /\ BagOfSeq(r.value) = BagOfUser(AppendedFor(r), r.args.user_id)
    /\ SumSeq(r.value) = SumBag(BagOfUser(AppendedFor(r), r.args.user_id))

(***************************************************************************)
(* C1 as stated: a list with no filters whose query succeeded returns      *)
(* exactly the entries appended for the user with that kind, and their     *)
(* amounts add up to the amounts appended.                                 *)
(***************************************************************************)
C1_ListReturnsAllAppended ==
    \A p \in Procs :
        (IsList(ret[p]) /\ ret[p].error = "none" /\ Unfiltered(ret[p].args))
            => ListsEverything(ret[p])

(***************************************************************************)
(* C1 amended: a list with no filters whose query succeeded returns        *)
(* exactly the entries appended for the user with that kind, and the same  *)
(* sum of amounts, provided the user has at most `limit` entries of that   *)
(* kind (limit 0 or None switches the truncation off).                     *)
(***************************************************************************)
C1_ListReturnsAllWithinLimit ==
    \A p \in Procs :
        (/\ IsList(ret[p]) /\ ret[p].error = "none" /\ Unfiltered(ret[p].args)
         /\ \/ ret[p].args.limit = 0
            \/ BagCardinality(BagOfUser(AppendedFor(ret[p]), ret[p].args.user_id))
                   <= ret[p].args.limit)
            => ListsEverything(ret[p])

\* a default-limit list returned one of two expenses: the other is another user's
C1_Witness ==
    /\ ret[1].op = "get_expenses" /\ ret[1].error = "none"
    /\ Unfiltered(ret[1].args) /\ ret[1].args.limit = DefaultLimit
    /\ Len(ret[1].value) = 1
    /\ Len(expenses) = 2

(***************************************************************************)
(* SpecFilter: one session appending entries and listing them under every  *)
(* combination of date and amount bounds.                                  *)
(***************************************************************************)
FilterDocs ==
    [user_id : UserIds, date : {D1, D2}, category : {"Food"},
     amount : {5, 20}, description : {DescCoffee}]
\* every combination of bounds, for one user under the default limit
BoundCalls ==
    [user_id : {"u1"}, start_date : {NoStr, D1, D2}, end_date : {NoStr, D1, D2},
     category : {""}, qtext : {NoStr}, min_amt : {None, Some(5), Some(20)},
     max_amt : {None, Some(5), Some(20)}, limit : {DefaultLimit}]
\* a limit of one row, with and without a bound; these calls may fail
LimitCalls ==
    [user_id : UserIds, start_date : {NoStr, D2}, end_date : {NoStr},
     category : {""}, qtext : {NoStr}, min_amt : {None},
     max_amt : {None, Some(5)}, limit : {1}]
FilterCalls ==
    (BoundCalls \X {"ok"}) \cup (LimitCalls \X {"ok", "ServiceUnavailable"})

NextFilter ==
    \/ \E doc \in FilterDocs, o \in WriteOutcomes : AddExpense(1, doc, o)
    \/ \E doc \in FilterDocs, o \in WriteOutcomes : AddIncome(1, doc, o)
    \/ \E c \in FilterCalls : GetExpenses(1, c[1], c[2])
    \/ \E c \in FilterCalls : GetIncomes(1, c[1], c[2])
    \/ Return(1)

SpecFilter == Init /\ [][NextFilter]_vars

\* the collection the call r read
CollectionOf(r) == IF r.op = "get_expenses" THEN expenses ELSE incomes
InDateBounds(d, a) ==
    /\ (a.start_date # NoStr => StrLE(a.start_date, d.date))
    /\ (a.end_date # NoStr => StrLE(d.date, a.end_date))
InAmountBounds(d, a) ==
    /\ (a.min_amt # None => a.min_amt[1] <= d.amount)
    /\ (a.max_amt # None => d.amount <= a.max_amt[1])
\* the user's entries within the date bounds, and within both bounds
DatedOf(r) ==
    LET keep(d) == d.user_id = r.args.user_id /\ InDateBounds(d, r.args)
    IN  SelectSeq(CollectionOf(r), keep)
BoundedOf(r) ==
    LET keep(d) == InAmountBounds(d, r.args)
    IN  SelectSeq(DatedOf(r), keep)

(***************************************************************************)
(* C10: a list whose query succeeded returns only entries of the user with *)
(* start_date <= date <= end_date and min_amount <= amount <= max_amount   *)
(* (each bound applied only when supplied, dates compared as strings), and *)
(* returns every such entry when the limit did not cut the fetch short; an *)
(* entry exactly on a bound is returned.                                   *)
(***************************************************************************)
C10_InclusiveBounds ==
    \A p \in Procs :
        (/\ IsList(ret[p]) /\ ret[p].error = "none"
         /\ ret[p].args.category = "" /\ ret[p].args.qtext = NoStr)
            => /\ BagOfSeq(ret[p].value) \sqsubseteq BagOfSeq(BoundedOf(ret[p]))
               /\ (\/ ret[p].args.limit = 0
                   \/ Len(DatedOf(ret[p])) <= ret[p].args.limit)
                      => BagOfSeq(ret[p].value) = BagOfSeq(BoundedOf(ret[p]))

\* an entry dated exactly start_date = end_date whose amount is exactly
\* min_amount = max_amount is returned; the user's other entry is not
C10_Witness ==
    /\ ret[1].op = "get_expenses" /\ ret[1].error = "none"
    /\ ret[1].args.start_date = D2 /\ ret[1].args.end_date = D2
    /\ ret[1].args.min_amt = Some(20) /\ ret[1].args.max_amt = Some(20)
    /\ Len(ret[1].value) = 1
    /\ ret[1].value[1].date = D2 /\ ret[1].value[1].amount = 20
    /\ Len(expenses) = 2
    /\ \A i \in 1..2 : expenses[i].user_id = ret[1].args.user_id

(***************************************************************************)
(* SpecBudgetSeq: one session, so that no two calls overlap.               *)
(* SpecBudget: two sessions whose calls interleave round trip by round     *)
(* trip.                                                                   *)
(***************************************************************************)
\* date.today().strftime("%Y-%m") of a month of 2024
MonthStr(month) == SubSeq(IsoDate(month, 1), 1, 7)
Months == {MonthStr(5), MonthStr(6)}
BudgetAmounts == {100, 150}
MonthlyKeys == [user_id : UserIds, month : Months]
MonthlyArgs == [user_id : UserIds, month : Months, budget : BudgetAmounts]
\* a category key and the keys that differ from it in user, month or category
CategoryKeys ==
    {[user_id |-> "u1", month |-> MonthStr(5), category |-> "Food"],
     [user_id |-> "u2", month |-> MonthStr(5), category |-> "Food"],
     [user_id |-> "u1", month |-> MonthStr(6), category |-> "Food"],
     [user_id |-> "u1", month |-> MonthStr(5), category |-> "Bills"]}
CategoryArgs ==
    {[user_id |-> k.user_id, month |-> k.month, category |-> k.category, budget |-> b] :
        k \in CategoryKeys, b \in BudgetAmounts}

BudgetStep(p) ==
    \/ \E a \in MonthlyArgs, o \in QueryOutcomes : SetMonthlyBudgetLookup(p, a, o)
    \/ \E o \in WriteOutcomes : SetMonthlyBudgetWrite(p, o)
    \/ \E a \in MonthlyKeys, o \in QueryOutcomes : GetMonthlyBudget(p, a, o)
    \/ \E a \in CategoryArgs, o \in QueryOutcomes : SetCategoryBudgetLookup(p, a, o)
    \/ \E o \in WriteOutcomes : SetCategoryBudgetWrite(p, o)
    \/ \E a \in CategoryKeys, o \in QueryOutcomes : GetCategoryBudget(p, a, o)
    \/ Return(p)

NextBudgetSeq == BudgetStep(1)
SpecBudgetSeq == Init /\ [][NextBudgetSeq]_vars

\* the upserts alone, on the keys of one user and month
RaceMonthlyArgs == {a \in MonthlyArgs : a.user_id = "u1" /\ a.month = MonthStr(5)}
RaceCategoryArgs ==
    {a \in CategoryArgs : a.user_id = "u1" /\ a.month = MonthStr(5) /\ a.budget = 100}
UpsertStep(p) ==
    \/ \E a \in RaceMonthlyArgs, o \in {"ok", "ServiceUnavailable"} :
           SetMonthlyBudgetLookup(p, a, o)
    \/ \E o \in WriteOutcomes : SetMonthlyBudgetWrite(p, o)
    \/ \E a \in RaceCategoryArgs, o \in {"ok", "ServiceUnavailable"} :
           SetCategoryBudgetLookup(p, a, o)
    \/ \E o \in WriteOutcomes : SetCategoryBudgetWrite(p, o)
    \/ Return(p)

NextBudget == \E p \in Procs : UpsertStep(p)
SpecBudget == Init /\ [][NextBudget]_vars

\* the budget documents stored under a key
MonthlyRecords(u, m) == {d \in budgets : d.user_id = u /\ d.month = m}
CategoryRecords(u, m, c) ==
    {d \in category_budgets : d.user_id = u /\ d.month = m /\ d.category = c}

(***************************************************************************)
(* C2: under non-overlapping calls, once upsert_monthly(u, m, a) has       *)
(* completed without store failure the budgets collection holds exactly    *)
(* one record with key (u, m), its amount is that of the last such upsert, *)
(* and a get_monthly(u, m) whose query succeeds returns that amount.       *)
(***************************************************************************)
C2_LastWriteWins ==
    /\ \A k \in MonthlyKeys :
          <<k.user_id, k.month>> \in DOMAIN lastSet.monthly
              => /\ Cardinality(MonthlyRecords(k.user_id, k.month)) = 1
                 /\ \A d \in MonthlyRecords(k.user_id, k.month) :
                        d.budget = lastSet.monthly[<<k.user_id, k.month>>]
    /\ \A p \in Procs :
          (/\ ret[p].op = "get_monthly_budget" /\ ret[p].error = "none"
           /\ <<ret[p].args.user_id, ret[p].args.month>> \in DOMAIN lastSet.monthly)
              => ret[p].value =
                     Some(lastSet.monthly[<<ret[p].args.user_id, ret[p].args.month>>])

\* a second upsert found the record holding 100 and left a single record of 150
C2_Witness ==
    /\ pc[1] = "done" /\ ret[1].op = "set_monthly_budget" /\ ret[1].error = "none"
    /\ frame[1].found # <<>> /\ frame[1].found[1].budget = 100
    /\ ret[1].args.budget = 150
    /\ MonthlyRecords(ret[1].args.user_id, ret[1].args.month) =
           {[frame[1].found[1] EXCEPT !.budget = 150]}

(***************************************************************************)
(* C3: under non-overlapping calls, for every (user, month, category) key  *)
(* there is no category_budgets record if upsert_category was never        *)
(* completed for the key and otherwise exactly one, holding the amount of  *)
(* the most recent completed upsert for that key (so an upsert for another *)
(* key never changes it); a get_category whose query succeeds returns      *)
(* absent in the first case and that amount in the second.                 *)
(***************************************************************************)
C3_CategoryBudgetPerKey ==
    LET last == lastSet.category
        key(a) == <<a.user_id, a.month, a.category>>
    IN  /\ \A k \in CategoryKeys :
              IF key(k) \in DOMAIN last
              THEN /\ Cardinality(CategoryRecords(k.user_id, k.month, k.category)) = 1
                   /\ \A d \in CategoryRecords(k.user_id, k.month, k.category) :
                          d.budget = last[key(k)]
              ELSE CategoryRecords(k.user_id, k.month, k.category) = {}
        /\ \A p \in Procs :
              (ret[p].op = "get_category_budget" /\ ret[p].error = "none")
                  => ret[p].value = IF key(ret[p].args) \in DOMAIN last
                                    THEN Some(last[key(ret[p].args)]) ELSE None

\* get_category returns the 150 of its key while another key holds 100
C3_Witness ==
    /\ ret[1].op = "get_category_budget" /\ ret[1].error = "none"
    /\ ret[1].value = Some(150)
    /\ \E d \in category_budgets :
          /\ d.budget = 100
          /\ d.user_id = ret[1].args.user_id /\ d.month = ret[1].args.month
          /\ d.category # ret[1].args.category

(***************************************************************************)
(* C6: while no two upserts of one key were in flight together the budget  *)
(* collections hold at most one record for that key; and two upserts of    *)
(* one key whose lookups both found nothing and whose writes both          *)
(* succeeded leave at least two records for it.                            *)
(***************************************************************************)
C6_OneRecordUnlessOverlapped ==
    /\ \A a \in RaceMonthlyArgs :
          <<a.user_id, a.month>> \notin overlapped
              => Cardinality(MonthlyRecords(a.user_id, a.month)) <= 1
    /\ \A a \in RaceCategoryArgs :
          <<a.user_id, a.month, a.category>> \notin overlapped
              => Cardinality(CategoryRecords(a.user_id, a.month, a.category)) <= 1
    /\ \A p, q \in Procs :
          (/\ p # q /\ pc[p] = "done" /\ pc[q] = "done"
           /\ ret[p].op \in {"set_monthly_budget", "set_category_budget"}
           /\ ret[q].op = ret[p].op
           /\ ret[p].error = "none" /\ ret[q].error = "none"
           /\ KeyOf(frame[p]) = KeyOf(frame[q])
           /\ frame[p].found = <<>> /\ frame[q].found = <<>>)
              => IF ret[p].op = "set_monthly_budget"
                 THEN Cardinality(MonthlyRecords(ret[p].args.user_id, ret[p].args.month)) >= 2
                 ELSE Cardinality(CategoryRecords(ret[p].args.user_id, ret[p].args.month,
                                                  ret[p].args.category)) >= 2

\* both sessions looked the key up, found nothing, completed upsert_monthly,
\* and two records exist for the key
C6_Witness ==
    /\ pc[1] = "done" /\ pc[2] = "done"
    /\ ret[1].op = "set_monthly_budget" /\ ret[2].op = "set_monthly_budget"
    /\ frame[1].op = "set_monthly_budget" /\ frame[2].op = "set_monthly_budget"
    /\ frame[1].found = <<>> /\ frame[2].found = <<>>
    /\ ret[1].error = "none" /\ ret[2].error = "none"
    /\ Cardinality(MonthlyRecords(ret[1].args.user_id, ret[1].args.month)) = 2


(***************************************************************************)
(* Accounts and categories, one call at a time.                            *)
(***************************************************************************)
Usernames == {"alice", "bob"}
SignupArgs == {[username |-> n, password |-> "pw"] : n \in Usernames}
LoginArgs == {[username |-> n, password |-> w] : n \in Usernames, w \in {"pw", "no"}}
CategoryTypes == {"expense", "income"}

\* the ids the sessions hold: authenticate hands out ids of existing users
KnownIds == {u.id : u \in users}

\* what a session may submit to add_category: a default name or a new one
CategoryDocs ==
    {[user_id |-> u, name |-> n, type |-> t] :
        u \in KnownIds, n \in {"Food", "Travel"}, t \in CategoryTypes}

CategoryQueries == {[user_id |-> u, type |-> t] : u \in KnownIds, t \in CategoryTypes}

AccountStep(p) ==
    \/ \E a \in SignupArgs, o \in QueryOutcomes : CreateUserLookup(p, a, o)
    \/ \E o \in WriteOutcomes : CreateUserAdd(p, o)
    \/ \E o \in WriteOutcomes : CreateUserCommit(p, o)
    \/ \E a \in LoginArgs, o \in QueryOutcomes : Authenticate(p, a, o)
    \/ \E a \in CategoryQueries, o \in QueryOutcomes : GetCategories(p, a, o)
    \/ \E a \in CategoryDocs, o \in QueryOutcomes : AddCategoryLookup(p, a, o)
    \/ \E o \in WriteOutcomes : AddCategoryInsert(p, o)
    \/ Return(p)

NextAccountSeq == AccountStep(1)

SpecAccountSeq == Init /\ [][NextAccountSeq]_vars

\* the number of category records for one (user, name, kind)
CountOf(doc) == CopiesIn(doc, categories)

\* how often a name occurs in a returned list
Occurrences(names, n) == Cardinality({i \in DOMAIN names : names[i] = n})

\* C4: under non-overlapping calls no two category records share
\* (user, name, kind): an add that returned "created" left exactly one record
\* for its triple, and every triple has at most one record.
C4_NoDuplicateCategories ==
    /\ \A d \in DOMAIN categories : categories[d] <= 1
    /\ (pc[1] = "done" /\ ret[1].op = "add_category" /\ ~ret[1].raised
          /\ ret[1].value = TRUE)
       => Occurrences(CategoryNames(categories, ret[1].args.user_id, ret[1].args.type),
                      ret[1].args.name) = 1

\* the default categories a user owns
OwnedDefaults(user_id) == {d \in DefaultDocs(user_id) : BagIn(d, categories)}

\* C7 as stated: in every reachable state a user created by create_user owns
\* none of the ten default categories or all of them.
C7_NoneOrAllDefaults ==
    \A u \in users : OwnedDefaults(u.id) \in {{}, DefaultDocs(u.id)}

\* the category records of a user that create_user's batch wrote
SeededFor(user_id) ==
    LET seeded == categories (-) manual
    IN  [d \in {x \in DOMAIN seeded : x.user_id = user_id} |-> seeded[d]]

\* C7: the batch of create_user is all or nothing: in every reachable state
\* the records the batch wrote for a user are none, or exactly the ten
\* defaults once each, also when the batch write fails.
C7_SeedingAllOrNothing ==
    \A u \in users : SeededFor(u.id) \in {EmptyBag, SetToBag(DefaultDocs(u.id))}

\* one user was seeded with the ten defaults, the batch of another one has
\* just failed and left it with none
C7_Witness ==
    /\ pc[1] = "done" /\ ret[1].op = "create_user" /\ ret[1].error # "none"
    /\ frame[1].op = "create_user" /\ "user_id" \in DOMAIN frame[1]
    /\ SeededFor(frame[1].user_id) = EmptyBag
    /\ \E u \in users : /\ u.id # frame[1].user_id
                        /\ Cardinality(DefaultDocs(u.id)) = 10
                        /\ SeededFor(u.id) = SetToBag(DefaultDocs(u.id))

\* C8: no operation lets an exception escape to its caller.
C8_NoExceptionEscapes == \A p \in Procs : ~ret[p].raised

(***************************************************************************)
(* Two sessions of one user adding categories.                             *)
(***************************************************************************)
RaceCategoryDocs ==
    {[user_id |-> "u1", name |-> n, type |-> "expense"] : n \in {"Food", "Travel"}}

CategoryRaceStep(p) ==
    \/ \E a \in RaceCategoryDocs, o \in QueryOutcomes : AddCategoryLookup(p, a, o)
    \/ \E o \in WriteOutcomes : AddCategoryInsert(p, o)
    \/ \E o \in QueryOutcomes :
          GetCategories(p, [user_id |-> "u1", type |-> "expense"], o)
    \/ Return(p)

NextCategoryRace == \E p \in Procs : CategoryRaceStep(p)

SpecCategoryRace == Init /\ [][NextCategoryRace]_vars

\* both sessions completed add_category for one triple, each after an
\* existence query that succeeded and found nothing
BothPassedCheck ==
    /\ pc[1] = "done" /\ pc[2] = "done"
    /\ ret[1].op = "add_category" /\ ret[2].op = "add_category"
    /\ ret[1].args = ret[2].args
    /\ frame[1].op = "add_category" /\ frame[2].op = "add_category"
    /\ frame[1].lookup = "ok" /\ frame[2].lookup = "ok"
    /\ frame[1].existing = <<>> /\ frame[2].existing = <<>>
    /\ ~ret[1].raised /\ ~ret[2].raised

\* C5: when two add_category calls for one absent triple both run their
\* existence query before either insert, both insert and return created, and
\* the triple has two records.
C5_BothInsert ==
    BothPassedCheck =>
        /\ ret[1].value = TRUE /\ ret[2].value = TRUE
        /\ CountOf(ret[1].args) >= 2

\* the two calls interleaved that way and the triple has two records
C5_Witness == BothPassedCheck /\ CountOf(ret[1].args) = 2


(***************************************************************************)
(* Index errors: extract_index_url_from_error and safe_get.                *)
(* A text is a sequence of tokens: a link prefix, one of the two markers,  *)
(* an ordinary character, a space, a line break, or a word.                *)
(***************************************************************************)
ConsolePrefix == "https://console.firebase.google.com/"
ConsolePrefixHttp == "http://console.firebase.google.com/"
OtherPrefix == "https://example.com/"
CreateComposite == "create_composite="
Indexes == "/indexes?"
Space == " "
LineBreak == "\n"

\* https?://console\.firebase\.google\.com/
Console == {ConsolePrefix, ConsolePrefixHttp}

\* the longest run of tokens from position i on that avoids `excl`
RECURSIVE RunLen(_, _, _)
RunLen(text, i, excl) ==
    IF i > Len(text) \/ text[i] \in excl THEN 0 ELSE 1 + RunLen(text, i + 1, excl)

Largest(S) == CHOOSE n \in S : \A m \in S : m <= n

\* Where the match of pat[k..] that re prefers ends when it starts at token
\* i of text (the position after its last token), or 0 when there is none.
\* A class is greedy: the longest run that lets the rest match.
RECURSIVE MatchEnd(_, _, _, _)
MatchEnd(pat, k, text, i) ==
    IF k > Len(pat) THEN i
    ELSE IF pat[k].kind = "lit"
    THEN IF i <= Len(text) /\ text[i] \in pat[k].toks
         THEN MatchEnd(pat, k + 1, text, i + 1)
         ELSE 0
    ELSE LET fits == {n \in pat[k].min .. RunLen(text, i, pat[k].excl) :
                         MatchEnd(pat, k + 1, text, i + n) # 0}
         IN  IF fits = {} THEN 0 ELSE MatchEnd(pat, k + 1, text, i + Largest(fits))

\* re.search(pat, text).group(1): the leftmost match, or <<>> for no match
Search(pat, text) ==
    LET starts == {i \in 1..Len(text) : MatchEnd(pat, 1, text, i) # 0}
    IN  IF starts = {} THEN <<>>
        ELSE LET i == CHOOSE x \in starts : \A y \in starts : x <= y
             IN  SubSeq(text, i, MatchEnd(pat, 1, text, i) - 1)

\* https?://console\.firebase\.google\.com/[^ ]*create_composite=[^ \n\r]+
CompositePattern ==
    << [kind |-> "lit", toks |-> Console],
       [kind |-> "class", excl |-> {Space}, min |-> 0],
       [kind |-> "lit", toks |-> {CreateComposite}],
       [kind |-> "class", excl |-> {Space, LineBreak}, min |-> 1] >>

\* https?://console\.firebase\.google\.com/[^\s]+/indexes\?[^\s]+
IndexesPattern ==
    << [kind |-> "lit", toks |-> Console],
       [kind |-> "class", excl |-> {Space, LineBreak}, min |-> 1],
       [kind |-> "lit", toks |-> {Indexes}],
       [kind |-> "class", excl |-> {Space, LineBreak}, min |-> 1] >>

ExtractIndexUrl(exc_text) ==
    LET m == Search(CompositePattern, exc_text)
    IN  IF m # <<>> THEN m ELSE Search(IndexesPattern, exc_text)

ErrorKinds == {"FailedPrecondition", "ServiceUnavailable", "Exception"}

\* the message of the exception safe_get raises for a failure of that kind
SafeGetMessage(kind, text) ==
    IF kind = "FailedPrecondition"
    THEN <<"Index", Space, "required:", Space>> \o text
            \o <<".", Space, "Create", Space, "it", Space, "here:", Space>>
            \o ExtractIndexUrl(text)
    ELSE IF kind = "ServiceUnavailable"
    THEN <<"Service", Space, "temporarily", Space, "unavailable:", Space>> \o text
    ELSE text

\* str(exc) of an API error: its status code, then its message
StrOf(kind, message) ==
    IF kind = "FailedPrecondition" THEN <<"400", Space>> \o message
    ELSE IF kind = "ServiceUnavailable" THEN <<"503", Space>> \o message
    ELSE message

\* safe_get: query.get fails with an error of `kind` whose str() is `text`;
\* the adapter raises an error of the same kind with its own message
SafeGetRaise(p, kind, text) ==
    /\ pc[p] = "idle"
    /\ frame' = [frame EXCEPT ![p] =
                    [op |-> "safe_get", kind |-> kind, text |-> text,
                     url |-> IF kind = "FailedPrecondition"
                             THEN ExtractIndexUrl(text) ELSE <<>>,
                     message |-> SafeGetMessage(kind, text)]]
    /\ pc' = [pc EXCEPT ![p] = "sg_raised"]
    /\ UNCHANGED <<store, ret, ghosts>>

\* the except clauses of get_expenses: the link shown comes from the str()
\* of the error the adapter raised
GetExpensesExcept(p) ==
    /\ pc[p] = "sg_raised"
    /\ LET f == frame[p]
           url == ExtractIndexUrl(StrOf(f.kind, f.message))
       IN  /\ frame' = [frame EXCEPT ![p] =
                  [op |-> "safe_get", kind |-> f.kind, text |-> f.text, url |-> f.url,
                   message |-> f.message,
                   hint |-> IF f.kind = "FailedPrecondition" THEN url ELSE <<>>]]
           /\ ret' = [ret EXCEPT ![p] =
                  Returned("get_expenses", [text |-> f.text], f.kind, <<>>)]
    /\ pc' = [pc EXCEPT ![p] = "done"]
    /\ UNCHANGED <<store, ghosts>>

\* the longest diagnostic text, in tokens
MaxDiag == 4

DiagTokens == {ConsolePrefix, OtherPrefix, CreateComposite, Indexes, "x", Space, LineBreak}

DiagTexts == UNION {[1..n -> DiagTokens] : n \in 0..MaxDiag}

NextIndexError ==
    \/ \E k \in ErrorKinds, t \in DiagTexts : SafeGetRaise(1, k, t)
    \/ GetExpensesExcept(1)
    \/ Return(1)

SpecIndexError == Init /\ [][NextIndexError]_vars

\* the links of a text to the console: from a console prefix to the next
\* white space
ConsoleLinks(text) ==
    {SubSeq(text, i, i + RunLen(text, i, {Space, LineBreak}) - 1) :
        i \in {j \in 1..Len(text) : text[j] \in Console}}

\* a link with create_composite= or an /indexes? query string
HasMarker(link) ==
    \E j \in 2..(Len(link) - 1) :
        \/ link[j] = CreateComposite
        \/ j > 2 /\ link[j] = Indexes

\* C9: for a missing index the error keeps the IndexRequired kind, and its
\* remediation hint is the link of the diagnostic text, verbatim, when the
\* text is one line with one console link that has create_composite= or an
\* /indexes? query string, and is empty when the text has no link prefix.
C9_HintIsLinkVerbatim ==
    \A p \in Procs :
        (pc[p] = "done" /\ frame[p].op = "safe_get"
            /\ frame[p].kind = "FailedPrecondition") =>
            LET text == frame[p].text
                links == ConsoleLinks(text)
            IN  /\ ret[p].error = "FailedPrecondition"
                /\ (\A i \in 1..Len(text) : text[i] \notin {ConsolePrefix, OtherPrefix})
                       => frame[p].hint = <<>>
                /\ ((\A i \in 1..Len(text) : text[i] # LineBreak)
                        /\ Cardinality(links) = 1
                        /\ \A l \in links : HasMarker(l))
                       => frame[p].hint \in links


(***************************************************************************)
(* The monthly report: generate_pdf.  Its three reads are three round      *)
(* trips; the rendering of the totals into the PDF file is not modelled.   *)
(***************************************************************************)
\* date.strftime("%Y-%m-%d") of any year: zero-padded, ten characters
IsoDateOf(year, month, day) ==
    <<48 + (year \div 1000), 48 + ((year \div 100) % 10), 48 + ((year \div 10) % 10),
      48 + (year % 10), 45, 48 + (month \div 10), 48 + (month % 10), 45,
      48 + (day \div 10), 48 + (day % 10)>>

\* the range ending at month + "-30"
MonthRange_To30(month) ==
    [start |-> month \o <<45, 48, 49>>, end |-> month \o <<45, 51, 48>>]

\* start = month + "-01"; end = month + "-31"
MonthRange(month) ==
    [start |-> month \o <<45, 48, 49>>, end |-> month \o <<45, 51, 49>>]

\* get_expenses(user_id, start_date=start, end_date=end): the other
\* parameters keep their defaults
MonthCall(user_id, month) ==
    [user_id |-> user_id, start_date |-> MonthRange(month).start,
     end_date |-> MonthRange(month).end, category |-> "", qtext |-> NoStr,
     min_amt |-> None, max_amt |-> None, limit |-> DefaultLimit]

\* df["amount"].sum() if not df.empty else 0.0
RECURSIVE AmountSum(_)
AmountSum(df) == IF df = <<>> THEN 0 ELSE Head(df).amount + AmountSum(Tail(df))

\* df.groupby("category")["amount"].sum(): category -> sum (the order of the
\* bars of the chart is left out)
GroupByCategory(df) ==
    [c \in {df[i].category : i \in DOMAIN df} |->
        AmountSum(SelectSeq(df, LAMBDA r : r.category = c))]

GeneratePdfExpenses(p, a, outcome) ==
    /\ pc[p] = "idle"
    /\ \E exp_df \in LedgerList(expenses, MonthCall(a.user_id, a.month), outcome) :
          frame' = [frame EXCEPT ![p] =
                       [op |-> "generate_pdf", args |-> a, exp_df |-> exp_df,
                        exp_error |-> IF outcome = "ok" THEN "none" ELSE outcome]]
    /\ pc' = [pc EXCEPT ![p] = "pdf_incomes"]
    /\ UNCHANGED <<store, ret, ghosts>>

GeneratePdfIncomes(p, outcome) ==
    /\ pc[p] = "pdf_incomes"
    /\ LET f == frame[p]
       IN  \E inc_df \in LedgerList(incomes, MonthCall(f.args.user_id, f.args.month),
                                    outcome) :
              frame' = [frame EXCEPT ![p] =
                           [op |-> "generate_pdf", args |-> f.args, exp_df |-> f.exp_df,
                            exp_error |-> f.exp_error, inc_df |-> inc_df,
                            inc_error |-> IF outcome = "ok" THEN "none" ELSE outcome]]
    /\ pc' = [pc EXCEPT ![p] = "pdf_budget"]
    /\ UNCHANGED <<store, ret, ghosts>>

GeneratePdfBudget(p, outcome) ==
    /\ pc[p] = "pdf_budget"
    /\ LET f == frame[p]
           tot_exp == AmountSum(f.exp_df)
           tot_inc == AmountSum(f.inc_df)
           budget == IF outcome = "ok"
                     THEN BudgetOf(FindMonthly(budgets, f.args.user_id, f.args.month))
                     ELSE None
       IN  ret' = [ret EXCEPT ![p] = Returned("generate_pdf", f.args, "none",
                      [tot_exp |-> tot_exp, tot_inc |-> tot_inc,
                       net |-> tot_inc - tot_exp, budget |-> budget,
                       exp_by_category |-> GroupByCategory(f.exp_df),
                       inc_by_category |-> GroupByCategory(f.inc_df)])]
    /\ pc' = [pc EXCEPT ![p] = "done"]
    /\ UNCHANGED <<store, frame, ghosts>>

\* the last day of a month and the first of the next: months of 28, 29, 30
\* and 31 days
ReportDates ==
    {IsoDateOf(2023, 2, 28), IsoDateOf(2023, 3, 1), IsoDateOf(2024, 2, 29),
     IsoDateOf(2024, 3, 1), IsoDateOf(2024, 4, 30), IsoDateOf(2024, 5, 1),
     IsoDateOf(2024, 5, 31), IsoDateOf(2024, 6, 1)}

ReportMonths ==
    {SubSeq(IsoDateOf(2023, 2, 1), 1, 7), SubSeq(IsoDateOf(2024, 2, 1), 1, 7),
     SubSeq(IsoDateOf(2024, 4, 1), 1, 7), SubSeq(IsoDateOf(2024, 5, 1), 1, 7)}

ReportDocs ==
    {[user_id |-> "u1", date |-> d, category |-> "Food", amount |-> 5,
      description |-> DescCoffee] : d \in ReportDates}
    \cup
    {[user_id |-> "u1", date |-> IsoDateOf(2024, 5, 1), category |-> "Bills",
      amount |-> 20, description |-> DescCoffee]}

ReportOutcomes == {"ok", "ServiceUnavailable"}

NextSummary ==
    \/ \E doc \in ReportDocs : AddExpense(1, doc, "ok")
    \/ \E doc \in ReportDocs : AddIncome(1, doc, "ok")
    \/ \E m \in ReportMonths, o \in ReportOutcomes :
          GeneratePdfExpenses(1, [user_id |-> "u1", month |-> m], o)
    \/ \E o \in ReportOutcomes : GeneratePdfIncomes(1, o)
    \/ \E o \in ReportOutcomes : GeneratePdfBudget(1, o)
    \/ Return(1)

SpecSummary == Init /\ [][NextSummary]_vars

\* the appended entries of bag B that belong to u and whose date starts
\* with month
InMonth(B, u, month) ==
    [x \in {d \in DOMAIN B : d.user_id = u /\ SubSeq(d.date, 1, Len(month)) = month}
        |-> B[x]]

\* the sum of the values of a breakdown
RECURSIVE SumValues(_)
SumValues(f) ==
    IF DOMAIN f = {} THEN 0
    ELSE LET c == CHOOSE x \in DOMAIN f : TRUE
         IN  f[c] + SumValues([y \in DOMAIN f \ {c} |-> f[y]])

\* the totals of a report are the sums over the entries of the month
TotalsOfMonth(r) ==
    /\ r.value.tot_exp = SumBag(InMonth(appended.expenses, r.args.user_id, r.args.month))
    /\ r.value.tot_inc = SumBag(InMonth(appended.incomes, r.args.user_id, r.args.month))
    /\ r.value.net = r.value.tot_inc - r.value.tot_exp
    /\ SumValues(r.value.exp_by_category) = r.value.tot_exp
    /\ SumValues(r.value.inc_by_category) = r.value.tot_inc

\* C11 as stated: over any appended ledger the report of (u, month) has the
\* sums of u's expenses and incomes dated in that month, their difference as
\* net, and breakdowns that sum to the totals.
C11_SummaryTotals ==
    (pc[1] = "done" /\ ret[1].op = "generate_pdf") => TotalsOfMonth(ret[1])

\* C11: the same, for a report whose two list queries succeeded and whose
\* month holds at most `limit` (1000) expenses and at most `limit` incomes.
C11_SummaryTotalsOfSuccessfulReads ==
    (/\ pc[1] = "done" /\ ret[1].op = "generate_pdf"
     /\ frame[1].exp_error = "none" /\ frame[1].inc_error = "none"
     /\ BagCardinality(InMonth(appended.expenses, ret[1].args.user_id,
                               ret[1].args.month)) <= DefaultLimit
     /\ BagCardinality(InMonth(appended.incomes, ret[1].args.user_id,
                               ret[1].args.month)) <= DefaultLimit)
        => TotalsOfMonth(ret[1])

\* a report with a positive expense total on the last day of its month,
\* while the user's only income is dated in an adjacent month and not counted
C11_Witness ==
    /\ pc[1] = "done" /\ ret[1].op = "generate_pdf"
    /\ frame[1].exp_error = "none" /\ frame[1].inc_error = "none"
    /\ ret[1].value.tot_exp > 0
    /\ \E i \in DOMAIN expenses :
          expenses[i].date = MonthRange(ret[1].args.month).end
    /\ incomes # <<>> /\ ret[1].value.tot_inc = 0


(***************************************************************************)
(* The text filter of get_expenses / get_incomes.                          *)
(***************************************************************************)
\* "Groceries"
DescGroceries == <<71, 114, 111, 99, 101, 114, 105, 101, 115>>

\* what the description field of the forms may hold, the empty text included
TextDocs ==
    {[user_id |-> "u1", date |-> D1, category |-> "Food", amount |-> 5,
      description |-> d] : d \in {DescCoffee, DescGroceries, NoStr}}

\* "cof", "COF", "run", "e r", "xyz", ".", "c.f", and no query
TextQueries ==
    {<<99, 111, 102>>, <<67, 79, 70>>, <<114, 117, 110>>, <<101, 32, 114>>,
     <<120, 121, 122>>, <<46>>, <<99, 46, 102>>, NoStr}

TextCalls ==
    {[user_id |-> "u1", start_date |-> NoStr, end_date |-> NoStr, category |-> "",
      qtext |-> q, min_amt |-> None, max_amt |-> None, limit |-> DefaultLimit] :
        q \in TextQueries}

NextText ==
    \/ \E doc \in TextDocs, o \in WriteOutcomes : AddExpense(1, doc, o)
    \/ \E doc \in TextDocs, o \in WriteOutcomes : AddIncome(1, doc, o)
    \/ \E a \in TextCalls, o \in {"ok", "ServiceUnavailable"} : GetExpenses(1, a, o)
    \/ \E a \in TextCalls, o \in {"ok", "ServiceUnavailable"} : GetIncomes(1, a, o)
    \/ Return(1)

SpecText == Init /\ [][NextText]_vars

\* needle occurs in hay as a contiguous run of characters
IsSubstring(hay, needle) ==
    \E i \in 0..(Len(hay) - Len(needle)) :
        \A j \in 1..Len(needle) : hay[i + j] = needle[j]

\* C12: a list whose query succeeded keeps an entry if and only if the
\* lower-cased text_query is a contiguous substring of the entry's lower-cased
\* description; an absent or empty text_query filters nothing out.
C12_TextFilterIsSubstring ==
    (pc[1] = "done" /\ IsList(ret[1]) /\ ret[1].error = "none") =>
        LET a == ret[1].args
            matches(d) == \/ a.qtext = NoStr
                          \/ IsSubstring(Lower(d.description), Lower(a.qtext))
        IN  BagOfSeq(ret[1].value) =
                BagOfSeq(SelectSeq(CollectionOf(ret[1]),
                                   LAMBDA d : d.user_id = a.user_id /\ matches(d)))


(***************************************************************************)
(* src/expense_db.py: a second module on the same collections, which       *)
(* app.py does not import.  Its functions have no try block: a failing     *)
(* store call raises out of them.                                          *)
(***************************************************************************)
\* expense_db.create_user, first round trip: the existence query
DbCreateUserLookup(p, a, outcome) ==
    /\ pc[p] = "idle"
    /\ Cardinality(users) + Cardinality({q \in Procs : pc[q] \in {"cu_add", "db_cu_add"}})
           < Cardinality(UserIds)
    /\ IF outcome # "ok"
       THEN /\ ret' = [ret EXCEPT ![p] = Raised("db.create_user", a, outcome)]
            /\ pc' = [pc EXCEPT ![p] = "done"]
            /\ UNCHANGED frame
       ELSE IF FindUsername(users, a.username) # {}
       THEN /\ ret' = [ret EXCEPT ![p] = Returned("db.create_user", a, "none", FALSE)]
            /\ pc' = [pc EXCEPT ![p] = "done"]
            /\ UNCHANGED frame
       ELSE /\ frame' = [frame EXCEPT ![p] = [op |-> "db.create_user", args |-> a]]
            /\ pc' = [pc EXCEPT ![p] = "db_cu_add"]
            /\ UNCHANGED ret
    /\ UNCHANGED <<store, ghosts>>

\* expense_db.create_user, second round trip: the password is stored as given
DbCreateUserAdd(p, outcome) ==
    /\ pc[p] = "db_cu_add"
    /\ LET a == frame[p].args
       IN  IF outcome = "ok"
           THEN \E id \in UserIds \ {u.id : u \in users} :
                   /\ users' = users \cup {[id |-> id, username |-> a.username,
                                            password |-> <<"plain", a.password>>]}
                   /\ ret' = [ret EXCEPT ![p] =
                                 Returned("db.create_user", a, "none", TRUE)]
           ELSE /\ ret' = [ret EXCEPT ![p] = Raised("db.create_user", a, outcome)]
                /\ UNCHANGED users
    /\ pc' = [pc EXCEPT ![p] = "done"]
    /\ UNCHANGED <<categories, expenses, incomes, budgets, category_budgets, frame,
                   ghosts>>

\* expense_db.delete_expense(expense_id): the document under that id is gone
DbDeleteExpense(p, i, outcome) ==
    /\ pc[p] = "idle"
    /\ i \in DOMAIN expenses
    /\ BagCardinality(appended.expenses) - Len(expenses) < MaxDeletes
    /\ IF outcome = "ok"
       THEN /\ expenses' = SubSeq(expenses, 1, i - 1) \o SubSeq(expenses, i + 1, Len(expenses))
            /\ ret' = [ret EXCEPT ![p] =
                          Returned("db.delete_expense", expenses[i], "none", <<>>)]
       ELSE /\ ret' = [ret EXCEPT ![p] = Raised("db.delete_expense", expenses[i], outcome)]
            /\ UNCHANGED expenses
    /\ pc' = [pc EXCEPT ![p] = "done"]
    /\ UNCHANGED <<users, categories, incomes, budgets, category_budgets, frame, ghosts>>

(***************************************************************************)
(* Sign-up, one call at a time, through either module.                     *)
(***************************************************************************)
NextSignup ==
    \/ \E a \in SignupArgs, o \in QueryOutcomes : CreateUserLookup(1, a, o)
    \/ \E o \in WriteOutcomes : CreateUserAdd(1, o)
    \/ \E o \in WriteOutcomes : CreateUserCommit(1, o)
    \/ \E a \in SignupArgs, o \in QueryOutcomes : DbCreateUserLookup(1, a, o)
    \/ \E o \in WriteOutcomes : DbCreateUserAdd(1, o)
    \/ \E a \in LoginArgs, o \in QueryOutcomes : Authenticate(1, a, o)
    \/ Return(1)

SpecSignup == Init /\ [][NextSignup]_vars

\* process p starts create_user (of either module) for a username that has
\* a user record
CreateOfExisting(p) ==
    /\ pc[p] = "idle" /\ pc'[p] # "idle"
    /\ ret'[p].op \in {"create_user", "db.create_user"}
    /\ FindUsername(users, ret'[p].args.username) # {}

\* C13: no two user records share a username, and a create_user for a
\* username that has a record fails ('Username already exists' when its
\* lookup succeeded) and writes no user and no category record.
C13_UniqueUsernames ==
    /\ [](\A u, v \in users : u.username = v.username => u = v)
    /\ [][\A p \in Procs : CreateOfExisting(p) =>
             /\ users' = users /\ categories' = categories
             /\ pc'[p] = "done"
             /\ IF ret'[p].op = "create_user"
                THEN /\ ret'[p].value[1] = FALSE
                     /\ ret'[p].error = "none"
                            => ret'[p].value[2] = "Username already exists"
                ELSE ret'[p].raised \/ ret'[p].value = FALSE]_vars

\* one user is registered and a create_user for its name has just been
\* refused
C13_Witness ==
    /\ Cardinality(users) = 1
    /\ pc[1] = "done" /\ ret[1].op = "create_user"
    /\ ret[1].value = <<FALSE, "Username already exists">>
    /\ \E u \in users : u.username = ret[1].args.username


(***************************************************************************)
(* The ledger under the operations of both modules.                        *)
(***************************************************************************)
StoreDocs ==
    [user_id : {"u1"}, date : {D1, D2}, category : {"Food"}, amount : {5, 20},
     description : {DescCoffee}]

NextStore ==
    \/ \E doc \in StoreDocs, o \in WriteOutcomes : AddExpense(1, doc, o)
    \/ \E doc \in StoreDocs, o \in WriteOutcomes : AddIncome(1, doc, o)
    \/ \E o \in QueryOutcomes : GetExpenses(1, NoFilters("u1", DefaultLimit), o)
    \/ \E o \in QueryOutcomes : GetIncomes(1, NoFilters("u1", DefaultLimit), o)
    \/ \E a \in RaceMonthlyArgs, o \in {"ok"} : SetMonthlyBudgetLookup(1, a, o)
    \/ \E o \in WriteOutcomes : SetMonthlyBudgetWrite(1, o)
    \/ \E i \in 1..MaxEntries, o \in WriteOutcomes : DbDeleteExpense(1, i, o)
    \/ Return(1)

SpecStore == Init /\ [][NextStore]_vars

\* new is old, or old with one document added: every document of old is in
\* new, unchanged and in the same order of ids
Grows(old, new) ==
    \/ new = old
    \/ /\ Len(new) = Len(old) + 1
       /\ \E i \in DOMAIN new :
             old = SubSeq(new, 1, i - 1) \o SubSeq(new, i + 1, Len(new))

\* the step calls expense_db.delete_expense
IsDbDelete ==
    \E p \in Procs : pc[p] = "idle" /\ pc'[p] = "done" /\ ret'[p].op = "db.delete_expense"

LimitDocs ==
    {[user_id |-> "u1", date |-> d, category |-> "Food", amount |-> x[1],
      description |-> x[2]] :
        d \in {D1, D2},
        x \in {<<5, DescCoffee>>, <<20, DescCoffee>>, <<20, DescGroceries>>}}

\* limits of one and two rows, the default, and none; with and without a
\* text and an amount filter
ListCalls ==
    [user_id : {"u1"}, start_date : {NoStr}, end_date : {NoStr, D1}, category : {""},
     qtext : {NoStr, <<99, 111, 102>>}, min_amt : {None, Some(20)}, max_amt : {None},
     limit : {0, 1, 2, DefaultLimit}]

NextList ==
    \/ \E doc \in LimitDocs : AddExpense(1, doc, "ok")
    \/ \E doc \in LimitDocs : AddIncome(1, doc, "ok")
    \/ \E a \in ListCalls, o \in {"ok", "ServiceUnavailable"} : GetExpenses(1, a, o)
    \/ \E a \in ListCalls, o \in {"ok", "ServiceUnavailable"} : GetIncomes(1, a, o)
    \/ Return(1)

SpecList == Init /\ [][NextList]_vars

\* the entry passes the client-side criteria of the call
PassesLocal(d, a) ==
    /\ a.qtext # NoStr => Contains(Lower(d.description), Lower(a.qtext))
    /\ InAmountBounds(d, a)

\* the rows that satisfy the server filters of the call r (user, dates,
\* category)
ServerRows(r) ==
    SelectSeq(DatedOf(r), LAMBDA d : r.args.category # "" => d.category = r.args.category)

\* the number of rows of `rows` dated before `date`, and dated up to it
DatedBefore(rows, date) ==
    Cardinality({j \in DOMAIN rows : rows[j].date # date /\ StrLE(rows[j].date, date)})
DatedUpTo(rows, date) ==
    Cardinality({j \in DOMAIN rows : StrLE(rows[j].date, date)})

\* C15: a list with a limit returns only rows among the first `limit` of the
\* server query in ascending date order that pass the client-side filters;
\* a row that matches every criterion is omitted only when more than `limit`
\* rows satisfy the server filters, and it is then among the latest-dated.
C15_LimitBeforeLocalFilters ==
    (pc[1] = "done" /\ IsList(ret[1]) /\ ret[1].error = "none"
        /\ ret[1].args.limit # 0) =>
        LET a == ret[1].args
            rows == ServerRows(ret[1])
            got == BagOfSeq(ret[1].value)
            all == BagOfSeq(SelectSeq(rows, LAMBDA d : PassesLocal(d, a)))
        IN  /\ Len(ret[1].value) <= a.limit
            /\ got \sqsubseteq all
            /\ \A x \in DOMAIN got : DatedBefore(rows, x.date) < a.limit
            /\ \A x \in DOMAIN all :
                  CopiesIn(x, got) < CopiesIn(x, all)
                      => /\ Len(rows) > a.limit
                         /\ DatedUpTo(rows, x.date) > a.limit

\* a limit of one row: the only row fetched fails the amount filter and
\* nothing is returned, while a later-dated entry matches every criterion
C15_Witness ==
    /\ pc[1] = "done" /\ ret[1].op = "get_expenses" /\ ret[1].error = "none"
    /\ ret[1].args.limit = 1 /\ ret[1].args.min_amt = Some(20)
    /\ ret[1].value = <<>>
    /\ \E i \in DOMAIN expenses : /\ PassesLocal(expenses[i], ret[1].args)
                                  /\ InDateBounds(expenses[i], ret[1].args)
                                  /\ expenses[i].date = D2

\* C16: the rows of a list are in descending order of date under string
\* comparison, whatever the filters.
C16_DescendingByDate ==
    (pc[1] = "done" /\ IsList(ret[1])) =>
        \A i \in 1..(Len(ret[1].value) - 1) :
            StrLE(ret[1].value[i + 1].date, ret[1].value[i].date)

\* a list of two entries of different dates, the later one first, from a
\* store that holds the earlier one under the smaller id
C16_Witness ==
    /\ pc[1] = "done" /\ ret[1].op = "get_expenses"
    /\ Len(ret[1].value) = 2
    /\ ret[1].value[1].date = D2 /\ ret[1].value[2].date = D1
    /\ expenses[1].date = D1


(***************************************************************************)
(* What an operation does after one of its store calls failed.             *)
(***************************************************************************)
\* the result by which an operation reports a failed store call
FailureResult(r) ==
    \/ r.raised
    \/ CASE r.op = "create_user" -> r.value[1] = FALSE
          [] r.op = "add_category" -> r.value = FALSE
          [] r.op \in {"authenticate", "get_categories"} -> r.value = <<>>
          [] OTHER -> FALSE

\* C17: no operation goes on after a failed store call: a call whose
\* store request failed is over, it issues no further request, and it ended
\* with its failure result (False, None, an empty list, or the exception).
C17_FailedCallEndsOperation ==
    \A p \in Procs :
        /\ (frame[p].op = "add_category" /\ frame[p].lookup # "ok")
               => (pc[p] = "done" /\ FailureResult(ret[p]))
        /\ (pc[p] = "done" /\ ret[p].error # "none") => FailureResult(ret[p])

\* the insert of an add_category whose lookup had failed
InsertAfterFailedLookup(p) ==
    /\ pc[p] = "ac_insert" /\ pc'[p] = "done"
    /\ frame[p].lookup # "ok"
    /\ ~ret'[p].raised

\* C18: an add_category whose existence lookup failed does not end there:
\* it never returns False, and its insert, unless the store refuses it, adds
\* one more record for the triple, whether one exists or not, and returns
\* True.
C18_FailedLookupStillInserts ==
    /\ [](\A p \in Procs :
            (pc[p] = "done" /\ frame[p].op = "add_category" /\ frame[p].lookup # "ok")
                => (ret[p].raised \/ ret[p].value = TRUE))
    /\ [][\A p \in Procs :
            InsertAfterFailedLookup(p)
                => /\ ret'[p].value = TRUE
                   /\ CopiesIn(frame[p].args, categories')
                          = CopiesIn(frame[p].args, categories) + 1]_vars

\* one caller, the lookup failed, and the triple now has two records
C18_Witness ==
    /\ pc[1] = "done" /\ frame[1].op = "add_category"
    /\ frame[1].lookup # "ok"
    /\ ~ret[1].raised /\ ret[1].value = TRUE
    /\ CountOf(frame[1].args) = 2

\* create_user came back from a failed batch.commit()
BatchFailed(p) ==
    /\ pc[p] = "done" /\ ret[p].op = "create_user" /\ ret[p].error # "none"
    /\ frame[p].op = "create_user" /\ "user_id" \in DOMAIN frame[p]

\* the category records of one user
CategoriesOf(user_id) == {d \in DOMAIN categories : d.user_id = user_id}

\* C19: create_user does not undo the user record: when the batch of
\* categories failed it returns (False, message) and the user record is in
\* the store with no category; no step removes a user record; and a later
\* create_user for a username that has a record fails, with 'Username
\* already exists' when its lookup succeeded.
C19_UserKeptAfterFailedSeeding ==
    /\ [](\A p \in Procs :
            BatchFailed(p)
                => /\ ret[p].value[1] = FALSE
                   /\ \E u \in users : /\ u.id = frame[p].user_id
                                       /\ u.username = ret[p].args.username
                   /\ CategoriesOf(frame[p].user_id) = {})
    /\ [][users \subseteq users']_vars
    /\ [][\A p \in Procs :
            (CreateOfExisting(p) /\ ret'[p].op = "create_user")
                => /\ ret'[p].value[1] = FALSE
                   /\ (ret'[p].error = "none"
                          => ret'[p].value[2] = "Username already exists")
                   /\ users' = users]_vars

\* a username is refused as existing while its user has no category: the
\* record an earlier, failed create_user left behind
C19_Witness ==
    /\ pc[1] = "done" /\ ret[1].op = "create_user"
    /\ ret[1].value = <<FALSE, "Username already exists">>
    /\ \E u \in users : /\ u.username = ret[1].args.username
                        /\ CategoriesOf(u.id) = {}


(***************************************************************************)
(* The Dashboard tab: this month's totals and the budget alerts.  Amounts  *)
(* are whole numbers; 0.8 * budget is compared as 5 * expense > 4 * budget.*)
(***************************************************************************)
\* str.startswith
StartsWith(text, prefix) ==
    Len(text) >= Len(prefix) /\ SubSeq(text, 1, Len(prefix)) = prefix

\* df[df['date'].str.startswith(current_month)]['amount'].sum() if not
\* df.empty else 0.0
MonthSum(df, current_month) ==
    AmountSum(SelectSeq(df, LAMBDA r : StartsWith(r.date, current_month)))

\* the nearing alert from exactly 80 percent on
Alerts_AtEighty(month_exp, budget) ==
    IF budget = None \/ budget[1] = 0 THEN {}
    ELSE IF month_exp > budget[1] THEN {"exceeded"}
    ELSE IF 5 * month_exp >= 4 * budget[1] THEN {"nearing"}
    ELSE {}

\* the alerts shown: "if budget:" is false for None and for 0; then
\* st.error when month_exp > budget, elif st.warning when
\* month_exp > 0.8 * budget
Alerts(month_exp, budget) ==
    IF budget = None \/ budget[1] = 0 THEN {}
    ELSE IF month_exp > budget[1] THEN {"exceeded"}
    ELSE IF 5 * month_exp > 4 * budget[1] THEN {"nearing"}
    ELSE {}

\* exp_df = get_expenses(uid)
DashboardExpenses(p, a, outcome) ==
    /\ pc[p] = "idle"
    /\ \E exp_df \in LedgerList(expenses, NoFilters(a.user_id, DefaultLimit), outcome) :
          frame' = [frame EXCEPT ![p] =
                       [op |-> "dashboard", args |-> a, exp_df |-> exp_df,
                        exp_error |-> IF outcome = "ok" THEN "none" ELSE outcome]]
    /\ pc' = [pc EXCEPT ![p] = "dash_incomes"]
    /\ UNCHANGED <<store, ret, ghosts>>

\* inc_df = get_incomes(uid)
DashboardIncomes(p, outcome) ==
    /\ pc[p] = "dash_incomes"
    /\ LET f == frame[p]
       IN  \E inc_df \in LedgerList(incomes, NoFilters(f.args.user_id, DefaultLimit),
                                    outcome) :
              frame' = [frame EXCEPT ![p] =
                           [op |-> "dashboard", args |-> f.args, exp_df |-> f.exp_df,
                            exp_error |-> f.exp_error, inc_df |-> inc_df,
                            inc_error |-> IF outcome = "ok" THEN "none" ELSE outcome]]
    /\ pc' = [pc EXCEPT ![p] = "dash_budget"]
    /\ UNCHANGED <<store, ret, ghosts>>

\* budget = get_monthly_budget(uid, current_month), the metrics and the alerts
DashboardBudget(p, outcome) ==
    /\ pc[p] = "dash_budget"
    /\ LET f == frame[p]
           month_exp == MonthSum(f.exp_df, f.args.current_month)
           month_inc == MonthSum(f.inc_df, f.args.current_month)
           budget == IF outcome = "ok"
                     THEN BudgetOf(FindMonthly(budgets, f.args.user_id,
                                               f.args.current_month))
                     ELSE None
       IN  ret' = [ret EXCEPT ![p] = Returned("dashboard", f.args, "none",
                      [month_exp |-> month_exp, month_inc |-> month_inc,
                       net |-> month_inc - month_exp, budget |-> budget,
                       budget_error |-> IF outcome = "ok" THEN "none" ELSE outcome,
                       alerts |-> Alerts(month_exp, budget)])]
    /\ pc' = [pc EXCEPT ![p] = "done"]
    /\ UNCHANGED <<store, frame, ghosts>>

(***************************************************************************)
(* SpecDashboard: one session entering expenses, setting the budget of the *)
(* current month and opening the Dashboard.                                *)
(***************************************************************************)
CurrentMonth == MonthStr(5)

DashboardDocs ==
    {[user_id |-> "u1", date |-> d, category |-> "Food", amount |-> n,
      description |-> DescCoffee] : d \in {IsoDate(4, 30), D1}, n \in {40, 41, 60}}
    \cup
    {[user_id |-> "u2", date |-> D1, category |-> "Food", amount |-> 60,
      description |-> DescCoffee]}

DashboardBudgets ==
    {[user_id |-> "u1", month |-> m, budget |-> b] :
        m \in {MonthStr(4), CurrentMonth}, b \in {0, 100}}

NextDashboard ==
    \/ \E doc \in DashboardDocs : AddExpense(1, doc, "ok")
    \/ \E a \in DashboardBudgets : SetMonthlyBudgetLookup(1, a, "ok")
    \/ SetMonthlyBudgetWrite(1, "ok")
    \/ \E o \in ReportOutcomes :
          DashboardExpenses(1, [user_id |-> "u1", current_month |-> CurrentMonth], o)
    \/ \E o \in ReportOutcomes : DashboardIncomes(1, o)
    \/ \E o \in ReportOutcomes : DashboardBudget(1, o)
    \/ Return(1)

SpecDashboard == Init /\ [][NextDashboard]_vars

\* the budgets stored for the user and month of a Dashboard run
StoredBudgets(r) ==
    {d.budget : d \in {x \in budgets : /\ x.user_id = r.args.user_id
                                       /\ x.month = r.args.current_month}}

\* the alerts of a Dashboard run are those of E, the sum of the user's
\* expenses of the current month, and B, the stored budget
AlertsOfLedger(r) ==
    LET E == SumBag(InMonth(appended.expenses, r.args.user_id, r.args.current_month))
        set == {B \in StoredBudgets(r) : B # 0}
    IN  /\ "exceeded" \in r.value.alerts <=> \E B \in set : E > B
        /\ "nearing" \in r.value.alerts <=> \E B \in set : 4 * B < 5 * E /\ E <= B
        /\ r.value.alerts # {"exceeded", "nearing"}
        /\ set = {} => r.value.alerts = {}

\* C20: the Dashboard shows 'exceeded' iff the stored budget B is set and
\* non-zero and the month's expenses E exceed it, 'nearing' iff B is set and
\* non-zero and 0.8*B < E <= B, never both, and nothing when B is absent
\* or 0.
C20_BudgetAlerts ==
    (pc[1] = "done" /\ ret[1].op = "dashboard") => AlertsOfLedger(ret[1])

\* C20, for a Dashboard run whose expense query and budget query both
\* succeeded on a ledger within the default limit: the alerts are as above.
C20_BudgetAlertsOfSuccessfulReads ==
    (/\ pc[1] = "done" /\ ret[1].op = "dashboard"
     /\ frame[1].exp_error = "none" /\ ret[1].value.budget_error = "none"
     /\ Len(expenses) <= DefaultLimit)
        => AlertsOfLedger(ret[1])

\* expenses at exactly the budget give 'nearing' after successful reads
C20_Witness ==
    /\ pc[1] = "done" /\ ret[1].op = "dashboard"
    /\ frame[1].exp_error = "none" /\ ret[1].value.budget_error = "none"
    /\ ret[1].value.budget = Some(100)
    /\ ret[1].value.month_exp = 100
    /\ ret[1].value.alerts = {"nearing"}
    /\ Len(expenses) = 2

====
